---- MODULE Spec2Model ----
(***************************************************************************)
(* EnergyManagementPlan of akkudoktoreos/simulation/simulationabc.py: the  *)
(* time-ordered container of DeviceControlInstructions with its derived    *)
(* validity window and its temporal and device-scoped queries.             *)
(*                                                                         *)
(* Time is counted in units of 30 minutes.  An Optional value is None      *)
(* (the empty tuple) or Some(v) (the one-element tuple <<v>>), so that a   *)
(* returned empty list Some(<<>>) differs from a returned None.            *)
(*                                                                         *)
(* The module also holds the instruction lifecycle data (InstructionStatus,*)
(* InstructionStatusUpdate), the default contracts OptimizationBase (the   *)
(* CEC, optimization/optimizationabc.py) and SimulationBase, and the       *)
(* constructors of the cross-referencing S2 data models.  A raised         *)
(* exception is the pair Raise(e) == << "raise", e >>.                      *)
(*                                                                         *)
(* HomeAssistantEntityIdMapping of adapter/homeassistant.py is the dict    *)
(* root with the key restriction _allowed_keys; a dict is a function from  *)
(* its keys to Optional values.                                            *)
(***************************************************************************)
EXTENDS Integers, Sequences, FiniteSets

\* ------------------------------------------------------------------ bounds

\* Largest number of instructions a plan holds (add_instruction is not taken beyond it).
MaxLen == 3

\* Largest number of instructions handed to the constructor.
MaxInit == 2

\* Last value of the wall clock.
MaxClock == 1

\* Instruction ids, device ids, start times and durations the callers use.
ControlIds == {1, 2}

DeviceIds == {1, 2}

StartTimes == {0, 2}

Durations == {2, 4}

\* The values of the argument now of the queries (besides None).
QueryTimes == 0 .. 2

\* Largest number of InstructionStatusUpdates the callers construct.
MaxUpdates == 2

\* Ids of simulations, of the artifacts they submit and of instructions.
SimulationIds == {1, 2}

ArtifactIds == {1, 2}

InstructionIds == {1, 2}

\* The names mappings are bound to, the keys and the entity ids of the callers.
Names == {"mapping1", "mapping2"}

Keys == {"key1", "key2"}

EntityIds == {"sensor.a"}

\* ------------------------------------------------------------- value types

None == << >>

Some(v) == << v >>

Optional(S) == {None} \cup {Some(v) : v \in S}

\* DeviceControlInstruction: the fields the plan reads.
DeviceControlInstruction ==
    [control_id : ControlIds, target_device : DeviceIds,
     start_time : StartTimes, duration : Durations]

\* The instructions the callers build: an id is used for several devices and
\* a device is addressed under several ids.
CallerInstructions == {i \in DeviceControlInstruction : i.control_id <= i.target_device}

\* Lists of at most n elements of S.
ListsUpTo(S, n) == UNION {[1 .. k -> S] : k \in 0 .. n}

Range(s) == {s[k] : k \in DOMAIN s}

\* min(...) and max(...) over a non-empty collection of instants.
Min(S) == CHOOSE x \in S : \A y \in S : x <= y

Max(S) == CHOOSE x \in S : \A y \in S : x >= y

\* ------------------------------------------------------------------- state

VARIABLES
    plan_id,        \* EnergyManagementPlan.plan_id
    generated_at,   \* EnergyManagementPlan.generated_at
    comment,        \* EnergyManagementPlan.comment
    instructions,   \* EnergyManagementPlan.instructions
    valid_from,     \* EnergyManagementPlan.valid_from (Optional)
    valid_until,    \* EnergyManagementPlan.valid_until (Optional)
    clock,          \* the wall clock read by to_datetime()
    call,           \* the last operation called on the plan and its argument
    result,         \* what that operation returned
    mutation,       \* history: the last of __init__, add_instruction and clear, the
                    \* clock at it, and for add_instruction its argument and the
                    \* instruction list it was called on
    status_updates, \* the InstructionStatusUpdates constructed so far, in order
    power_forecast, \* OptimizationBase.power_forecast
    repeated,       \* history: the last call repeats the call before it
    mappings,       \* the HomeAssistantEntityIdMapping bound to each name (None: unbound)
    context         \* _allowed_keys_context

vars == << plan_id, generated_at, comment, instructions, valid_from, valid_until,
           clock, call, result, mutation, status_updates, power_forecast, repeated,
           mappings, context >>

fields == << plan_id, generated_at, comment >>

\* What the operations of the plan leave alone, and what the operations of
\* the contracts and the data models leave alone.
protocol == << status_updates, power_forecast, repeated >>

plan == << fields, instructions, valid_from, valid_until, clock, mutation >>

\* What every operation outside the Home Assistant adapter leaves alone.
adapter == << mappings, context >>

\* ----------------------------------------------------------------- helpers

\* A sort that is not stable: the new element goes before its ties.
InsertByStart_BeforeTies(sorted, i) ==
    LET before == SelectSeq(sorted, LAMBDA j : j.start_time < i.start_time)
        after  == SelectSeq(sorted, LAMBDA j : j.start_time >= i.start_time)
    IN  before \o << i >> \o after

\* A list that is not sorted: the new element stays at the end.
InsertByStart_Unsorted(sorted, i) == Append(sorted, i)

\* list.sort(key=lambda i: i.start_time): the stable sort, as insertion of
\* each element behind every element whose key is not greater.
InsertByStart(sorted, i) ==
    LET before == SelectSeq(sorted, LAMBDA j : j.start_time <= i.start_time)
        after  == SelectSeq(sorted, LAMBDA j : j.start_time > i.start_time)
    IN  before \o << i >> \o after

RECURSIVE SortByStart(_)
SortByStart(s) ==
    IF s = << >> THEN << >>
    ELSE InsertByStart(SortByStart(SubSeq(s, 1, Len(s) - 1)), s[Len(s)])

\* The greatest start taken for the end of the window.
UpdateTimeRange_LatestStart(instrs, now) ==
    IF instrs # << >>
    THEN << Some(Min({i.start_time : i \in Range(instrs)})),
            Some(Max({i.start_time : i \in Range(instrs)})) >>
    ELSE << Some(now), Some(now) >>

\* The end of the first instruction taken for the greatest end.
UpdateTimeRange_FirstEnd(instrs, now) ==
    IF instrs # << >>
    THEN << Some(Min({i.start_time : i \in Range(instrs)})),
            Some(instrs[1].start_time + instrs[1].duration) >>
    ELSE << Some(now), Some(now) >>

\* The end of the last instruction taken for the greatest end.
UpdateTimeRange_LastEnd(instrs, now) ==
    IF instrs # << >>
    THEN << Some(Min({i.start_time : i \in Range(instrs)})),
            Some(instrs[Len(instrs)].start_time + instrs[Len(instrs)].duration) >>
    ELSE << Some(now), Some(now) >>

\* _update_time_range: the bounds as a pair << valid_from, valid_until >>.
UpdateTimeRange(instrs, now) ==
    IF instrs # << >>
    THEN << Some(Min({i.start_time : i \in Range(instrs)})),
            Some(Max({i.start_time + i.duration : i \in Range(instrs)})) >>
    ELSE << Some(now), Some(now) >>

\* now = now or to_datetime()
NowOr(now) == IF now = None THEN clock ELSE now[1]

\* The end of an instruction counted as active.
GetActiveInstructions_EndInclusive(instrs, now) ==
    LET active_instructions ==
            SelectSeq(instrs, LAMBDA i : i.start_time <= now /\ now <= i.start_time + i.duration)
    IN  IF active_instructions = << >> THEN None ELSE Some(active_instructions)

\* get_active_instructions
GetActiveInstructions(instrs, now) ==
    LET active_instructions ==
            SelectSeq(instrs, LAMBDA i : i.start_time <= now /\ now < i.start_time + i.duration)
    IN  IF active_instructions = << >> THEN None ELSE Some(active_instructions)

\* The last of the instructions with the least start taken.
GetNextInstruction_LastOfTies(instrs, now) ==
    LET future_instructions == SelectSeq(instrs, LAMBDA i : i.start_time > now)
        least == Min({i.start_time : i \in Range(future_instructions)})
        last  == Max({k \in DOMAIN future_instructions :
                        future_instructions[k].start_time = least})
    IN  IF future_instructions = << >> THEN None ELSE Some(future_instructions[last])

\* An instruction that starts at now counted as a future one.
GetNextInstruction_StartInclusive(instrs, now) ==
    LET future_instructions == SelectSeq(instrs, LAMBDA i : i.start_time >= now)
        least == Min({i.start_time : i \in Range(future_instructions)})
        first == Min({k \in DOMAIN future_instructions :
                        future_instructions[k].start_time = least})
    IN  IF future_instructions = << >> THEN None ELSE Some(future_instructions[first])

\* get_next_instruction: min(future_instructions, key=start_time) is the
\* first element of the list with the least key.
GetNextInstruction(instrs, now) ==
    LET future_instructions == SelectSeq(instrs, LAMBDA i : i.start_time > now)
        least == Min({i.start_time : i \in Range(future_instructions)})
        first == Min({k \in DOMAIN future_instructions :
                        future_instructions[k].start_time = least})
    IN  IF future_instructions = << >> THEN None ELSE Some(future_instructions[first])

\* The filter applied to control_id.
GetInstructionsForDevice_ByControlId(instrs, device_id) ==
    SelectSeq(instrs, LAMBDA i : i.control_id = device_id)

\* get_instructions_for_device
GetInstructionsForDevice(instrs, device_id) ==
    SelectSeq(instrs, LAMBDA i : i.target_device = device_id)

\* ------------------------------------------------------------------- Init

\* EnergyManagementPlan(plan_id, generated_at, instructions, valid_from?,
\* valid_until?, comment?): the constructor stores what it is given.
Init ==
    /\ plan_id = 1
    /\ clock = 0
    /\ generated_at = 0
    /\ comment = None
    /\ instructions \in ListsUpTo(CallerInstructions, MaxInit)
    /\ valid_from \in Optional({0})
    /\ valid_until \in Optional({0})
    /\ call = [op |-> "__init__", arg |-> None]
    /\ result = None
    /\ mutation = [op |-> "__init__", at |-> 0, arg |-> None, before |-> << >>]
    /\ status_updates = << >>
    /\ power_forecast = << >>
    /\ repeated = FALSE
    /\ mappings = [m \in Names |-> None]
    /\ context = None

\* ---------------------------------------------------------------- actions

\* The bounds recomputed before the instruction is appended.
AddInstruction_StaleBounds(instruction) ==
    /\ Len(instructions) < MaxLen
    /\ LET sorted == SortByStart(Append(instructions, instruction))
           range  == UpdateTimeRange(instructions, clock)
       IN  /\ instructions' = sorted
           /\ valid_from' = range[1]
           /\ valid_until' = range[2]
    /\ call' = [op |-> "add_instruction", arg |-> Some(instruction)]
    /\ result' = None
    /\ mutation' = [op |-> "add_instruction", at |-> clock,
                    arg |-> Some(instruction), before |-> instructions]
    /\ UNCHANGED << adapter, protocol, fields, clock >>

\* An instruction replaces the ones with its control_id.
AddInstruction_ReplaceById(instruction) ==
    /\ Len(instructions) < MaxLen
    /\ LET kept   == SelectSeq(instructions, LAMBDA i : i.control_id # instruction.control_id)
           sorted == SortByStart(Append(kept, instruction))
           range  == UpdateTimeRange(sorted, clock)
       IN  /\ instructions' = sorted
           /\ valid_from' = range[1]
           /\ valid_until' = range[2]
    /\ call' = [op |-> "add_instruction", arg |-> Some(instruction)]
    /\ result' = None
    /\ mutation' = [op |-> "add_instruction", at |-> clock,
                    arg |-> Some(instruction), before |-> instructions]
    /\ UNCHANGED << adapter, protocol, fields, clock >>

AddInstruction(instruction) ==
    /\ Len(instructions) < MaxLen
    /\ LET sorted == SortByStart(Append(instructions, instruction))
           range  == UpdateTimeRange(sorted, clock)
       IN  /\ instructions' = sorted
           /\ valid_from' = range[1]
           /\ valid_until' = range[2]
    /\ call' = [op |-> "add_instruction", arg |-> Some(instruction)]
    /\ result' = None
    /\ mutation' = [op |-> "add_instruction", at |-> clock,
                    arg |-> Some(instruction), before |-> instructions]
    /\ UNCHANGED << adapter, protocol, fields, clock >>

\* valid_until left as it was.
Clear_KeepsUntil ==
    /\ instructions' = << >>
    /\ valid_from' = Some(clock)
    /\ call' = [op |-> "clear", arg |-> None]
    /\ result' = None
    /\ mutation' = [op |-> "clear", at |-> clock, arg |-> None, before |-> << >>]
    /\ UNCHANGED << adapter, protocol, fields, clock, valid_until >>

\* The bounds set to the time the plan was generated at.
Clear_AtGeneration ==
    /\ instructions' = << >>
    /\ valid_from' = Some(generated_at)
    /\ valid_until' = Some(generated_at)
    /\ call' = [op |-> "clear", arg |-> None]
    /\ result' = None
    /\ mutation' = [op |-> "clear", at |-> clock, arg |-> None, before |-> << >>]
    /\ UNCHANGED << adapter, protocol, fields, clock >>

Clear ==
    /\ instructions' = << >>
    /\ valid_from' = Some(clock)
    /\ valid_until' = Some(clock)
    /\ call' = [op |-> "clear", arg |-> None]
    /\ result' = None
    /\ mutation' = [op |-> "clear", at |-> clock, arg |-> None, before |-> << >>]
    /\ UNCHANGED << adapter, protocol, fields, clock >>

ActiveInstructions(now) ==
    /\ call' = [op |-> "get_active_instructions", arg |-> Some(NowOr(now))]
    /\ result' = GetActiveInstructions(instructions, NowOr(now))
    /\ UNCHANGED << adapter, protocol, fields, instructions, valid_from, valid_until, clock, mutation >>

\* The instruction returned taken out of the plan.
NextInstruction_Consumes(now) ==
    /\ call' = [op |-> "get_next_instruction", arg |-> Some(NowOr(now))]
    /\ result' = GetNextInstruction(instructions, NowOr(now))
    /\ instructions' = SelectSeq(instructions, LAMBDA i : Some(i) # result')
    /\ UNCHANGED << adapter, protocol, fields, valid_from, valid_until, clock, mutation >>

NextInstruction(now) ==
    /\ call' = [op |-> "get_next_instruction", arg |-> Some(NowOr(now))]
    /\ result' = GetNextInstruction(instructions, NowOr(now))
    /\ UNCHANGED << adapter, protocol, fields, instructions, valid_from, valid_until, clock, mutation >>

InstructionsForDevice(device_id) ==
    /\ call' = [op |-> "get_instructions_for_device", arg |-> Some(device_id)]
    /\ result' = Some(GetInstructionsForDevice(instructions, device_id))
    /\ UNCHANGED << adapter, protocol, fields, instructions, valid_from, valid_until, clock, mutation >>

\* The wall clock advances between two calls.
Tick ==
    /\ clock < MaxClock
    /\ clock' = clock + 1
    /\ UNCHANGED << adapter, protocol, fields, instructions, valid_from, valid_until, call, result, mutation >>

Next ==
    \/ \E instruction \in CallerInstructions : AddInstruction(instruction)
    \/ Clear
    \/ \E now \in Optional(QueryTimes) : ActiveInstructions(now)
    \/ \E now \in Optional(QueryTimes) : NextInstruction(now)
    \/ \E device_id \in DeviceIds : InstructionsForDevice(device_id)
    \/ Tick

Spec == Init /\ [][Next]_vars

\* The plan of the tests: constructed with instructions=[] and no bounds.
InitEmpty ==
    /\ Init
    /\ instructions = << >>
    /\ valid_from = None
    /\ valid_until = None

SpecEmpty == InitEmpty /\ [][Next]_vars

\* Instructions whose duration is negative, zero or positive.
SignedDurations == {-2, 0, 2}

SignedInstructions ==
    [control_id : {1}, target_device : {1}, start_time : StartTimes, duration : SignedDurations]

\* The plan of the tests filled and cleared with such instructions.
NextSigned ==
    \/ \E instruction \in SignedInstructions : AddInstruction(instruction)
    \/ Clear
    \/ Tick

SpecSigned == InitEmpty /\ [][NextSigned]_vars

\* ------------------------------------------------- instruction lifecycle

\* class InstructionStatus(str, Enum)
InstructionStatus ==
    {"NEW", "ACCEPTED", "REJECTED", "REVOKED", "STARTED", "SUCCEEDED", "ABORTED"}

\* What callers pass as status_type: the members and a value that is none.
StatusInputs == InstructionStatus \cup {"PAUSED"}

\* class ReceptionStatusValues(str, Enum)
ReceptionStatusValues == {"SUCCEEDED", "REJECTED"}

Raise(e) == << "raise", e >>

\* ReceptionStatus(status=..., diagnostic_label=...)
ReceptionStatus(status, diagnostic_label) ==
    IF status \in ReceptionStatusValues
    THEN Some([status |-> status, diagnostic_label |-> diagnostic_label])
    ELSE Raise("ValidationError")

\* A status_type that is no member of the enumeration taken as it is.
InstructionStatusUpdate_AnyStatus(instruction_id, status_type, timestamp) ==
    Some([instruction_id |-> instruction_id, status_type |-> status_type,
          timestamp |-> timestamp])

\* InstructionStatusUpdate(instruction_id=..., status_type=..., timestamp=...):
\* the fields are validated against their types, a status_type that is no
\* InstructionStatus fails; nothing else is looked at.
InstructionStatusUpdate(instruction_id, status_type, timestamp) ==
    IF status_type \in InstructionStatus
    THEN Some([instruction_id |-> instruction_id, status_type |-> status_type,
               timestamp |-> timestamp])
    ELSE Raise("ValidationError")

\* A call returns value (or raises it); the history notes a repeated call.
Returns(op, arg, value) ==
    /\ call' = [op |-> op, arg |-> arg]
    /\ result' = value
    /\ repeated' = (call.op = op /\ call.arg = arg)

\* The statuses from which the lifecycle goes no further.
TerminalStatus == {"REJECTED", "SUCCEEDED", "ABORTED", "REVOKED"}

\* An update is refused once a terminal one exists for the instruction.
StatusUpdate_Guarded(instruction_id, status_type) ==
    /\ Len(status_updates) < MaxUpdates
    /\ LET update == InstructionStatusUpdate(instruction_id, status_type, clock)
           closed == \E k \in DOMAIN status_updates :
                        /\ status_updates[k].instruction_id = instruction_id
                        /\ status_updates[k].status_type \in TerminalStatus
       IN  IF Len(update) = 1 /\ ~closed
           THEN /\ Returns("InstructionStatusUpdate",
                           [instruction_id |-> instruction_id, status_type |-> status_type],
                           update)
                /\ status_updates' = Append(status_updates, update[1])
           ELSE /\ Returns("InstructionStatusUpdate",
                           [instruction_id |-> instruction_id, status_type |-> status_type],
                           Raise("ValidationError"))
                /\ UNCHANGED status_updates
    /\ UNCHANGED << adapter, plan, power_forecast >>

\* A simulation reports a status of an instruction: it constructs an
\* InstructionStatusUpdate, which exists from then on.
StatusUpdate(instruction_id, status_type) ==
    /\ Len(status_updates) < MaxUpdates
    /\ LET update == InstructionStatusUpdate(instruction_id, status_type, clock)
       IN  /\ Returns("InstructionStatusUpdate",
                      [instruction_id |-> instruction_id, status_type |-> status_type],
                      update)
           /\ status_updates' = IF Len(update) = 1
                                THEN Append(status_updates, update[1])
                                ELSE status_updates
    /\ UNCHANGED << adapter, plan, power_forecast >>

\* ------------------------------------------------ OptimizationBase (CEC)

\* The types of update of process_simulation_update.
SimulationUpdates ==
    {"SimulationDetails", "ControlType", "PEBCPowerConstraints", "PEBCEnergyConstraints",
     "PPBCPowerProfileDefinition", "OMBCSystemDescription", "FRBCSystemDescription",
     "FRBCLeakageBehaviour", "FRBCUsageForecast", "FRBCFillLevelTargetProfile",
     "DDBCSystemDescription", "DDBCAverageDemandRateForecast"}

\* The power measurements and forecasts the simulations submit.
MeasurementInputs == {<< 1 >>, << 1, 2 >>}

ForecastInputs == {<< 1 >>, << 2 >>}

\* The revoke_* methods of OptimizationBase.
CecRevocations ==
    {"revoke_power_forecast", "revoke_pebc_power_constraints",
     "revoke_pebc_energy_constraints", "revoke_ppbc_power_profile_definition",
     "revoke_ombc_system_description", "revoke_frbc_system_description",
     "revoke_frbc_leakage_behaviour", "revoke_frbc_usage_forecast",
     "revoke_frbc_fill_level_target_profile", "revoke_ddbc_system_description",
     "revoke_ddbc_average_demand_rate_forecast"}

\* revoke_ddbc_system_description taking an id as the other system descriptions do.
RevokeParameters_DdbcWithId(op) ==
    CASE op = "revoke_power_forecast"                    -> {"simulation_id"}
      [] op = "revoke_pebc_power_constraints"            -> {"simulation_id", "id"}
      [] op = "revoke_pebc_energy_constraints"           -> {"simulation_id", "id"}
      [] op = "revoke_ppbc_power_profile_definition"     -> {"simulation_id", "id"}
      [] op = "revoke_ombc_system_description"           -> {"simulation_id", "id"}
      [] op = "revoke_frbc_system_description"           -> {"simulation_id", "id"}
      [] op = "revoke_frbc_leakage_behaviour"            -> {"simulation_id"}
      [] op = "revoke_frbc_usage_forecast"               -> {"simulation_id"}
      [] op = "revoke_frbc_fill_level_target_profile"    -> {"simulation_id"}
      [] op = "revoke_ddbc_system_description"           -> {"simulation_id", "id"}
      [] op = "revoke_ddbc_average_demand_rate_forecast" -> {"simulation_id"}

\* The parameters of each revoke_* method of OptimizationBase (besides self).
RevokeParameters(op) ==
    CASE op = "revoke_power_forecast"                    -> {"simulation_id"}
      [] op = "revoke_pebc_power_constraints"            -> {"simulation_id", "id"}
      [] op = "revoke_pebc_energy_constraints"           -> {"simulation_id", "id"}
      [] op = "revoke_ppbc_power_profile_definition"     -> {"simulation_id", "id"}
      [] op = "revoke_ombc_system_description"           -> {"simulation_id", "id"}
      [] op = "revoke_frbc_system_description"           -> {"simulation_id", "id"}
      [] op = "revoke_frbc_leakage_behaviour"            -> {"simulation_id"}
      [] op = "revoke_frbc_usage_forecast"               -> {"simulation_id"}
      [] op = "revoke_frbc_fill_level_target_profile"    -> {"simulation_id"}
      [] op = "revoke_ddbc_system_description"           -> {"simulation_id"}
      [] op = "revoke_ddbc_average_demand_rate_forecast" -> {"simulation_id"}

\* The methods of OptimizationBase.
CecOperations ==
    {"process_simulation_update", "process_power_measurement", "process_power_forecast"}
        \cup CecRevocations

\* The body of every method of OptimizationBase: return ReceptionStatus(
\* status=ReceptionStatusValues.REJECTED, diagnostic_label="abstract method").
OptimizationBaseReturn(op) == ReceptionStatus("REJECTED", Some("abstract method"))

ProcessSimulationUpdate(simulation_id, update) ==
    /\ Returns("process_simulation_update",
               [simulation_id |-> simulation_id, update |-> update],
               OptimizationBaseReturn("process_simulation_update"))
    /\ UNCHANGED << adapter, plan, status_updates, power_forecast >>

ProcessPowerMeasurement(simulation_id, power_measurement) ==
    /\ Returns("process_power_measurement",
               [simulation_id |-> simulation_id, power_measurement |-> power_measurement],
               OptimizationBaseReturn("process_power_measurement"))
    /\ UNCHANGED << adapter, plan, status_updates, power_forecast >>

\* The forecast received is stored and acknowledged.
ProcessPowerForecast_Stores(simulation_id, forecast) ==
    /\ Returns("process_power_forecast",
               [simulation_id |-> simulation_id, power_forecast |-> forecast],
               ReceptionStatus("SUCCEEDED", None))
    /\ power_forecast' = forecast
    /\ UNCHANGED << adapter, plan, status_updates >>

ProcessPowerForecast(simulation_id, forecast) ==
    /\ Returns("process_power_forecast",
               [simulation_id |-> simulation_id, power_forecast |-> forecast],
               OptimizationBaseReturn("process_power_forecast"))
    /\ UNCHANGED << adapter, plan, status_updates, power_forecast >>

\* One of the revoke_* methods, called with the arguments it takes.
CecRevoke(op, args) ==
    /\ Returns(op, args, OptimizationBaseReturn(op))
    /\ UNCHANGED << adapter, plan, status_updates, power_forecast >>

\* ------------------------------------------------------- SimulationBase

\* class ControlType(str, Enum)
ControlType ==
    {"POWER_ENVELOPE_BASED_CONTROL", "POWER_PROFILE_BASED_CONTROL",
     "OPERATION_MODE_BASED_CONTROL", "FILL_RATE_BASED_CONTROL",
     "DEMAND_DRIVEN_BASED_CONTROL", "NOT_CONTROLABLE", "NO_SELECTION"}

\* The types of instruction of process_instruction.
InstructionTypes ==
    {"PEBCInstruction", "PPBCScheduleInstruction", "PPBCStartInterruptionInstruction",
     "PPBCEndInterruptionInstruction", "OMBCInstruction", "FRBCInstruction",
     "DDBCInstruction"}

\* The revoke_*_instruction methods of SimulationBase.
SimulationRevocations ==
    {"revoke_pebc_instruction", "revoke_ppbc_instruction",
     "revoke_ppbc_start_interrupt_instruction", "revoke_ppbc_end_interrupt_instruction",
     "revoke_ombc_instruction", "revoke_frbc_instruction", "revoke_ddbc_instruction"}

\* An OMBC instruction accepted.
SimulationBaseProcessInstruction_AcceptsOmbc(instruction) ==
    IF instruction.type = "OMBCInstruction" THEN "ACCEPTED" ELSE "REJECTED"

\* process_instruction: return InstructionStatus.REJECTED
SimulationBaseProcessInstruction(instruction) == "REJECTED"

\* activate_control_type and revoke_*_instruction: return ReceptionStatus(
\* status=ReceptionStatusValues.REJECTED, diagnostic_label="abstract method").
SimulationBaseReturn(op) == ReceptionStatus("REJECTED", Some("abstract method"))

ActivateControlType(control_type) ==
    /\ Returns("activate_control_type", [control_type |-> control_type],
               SimulationBaseReturn("activate_control_type"))
    /\ UNCHANGED << adapter, plan, status_updates, power_forecast >>

ProcessInstruction(instruction) ==
    /\ Returns("process_instruction", [instruction |-> instruction],
               Some(SimulationBaseProcessInstruction(instruction)))
    /\ UNCHANGED << adapter, plan, status_updates, power_forecast >>

\* The revocation recorded as a status of the instruction.
SimulationRevoke_Records(op, id) ==
    /\ Returns(op, [id |-> id], ReceptionStatus("SUCCEEDED", None))
    /\ status_updates' =
          IF Len(status_updates) < MaxUpdates
          THEN Append(status_updates,
                      [instruction_id |-> id, status_type |-> "REVOKED", timestamp |-> clock])
          ELSE status_updates
    /\ UNCHANGED << adapter, plan, power_forecast >>

\* One of the revoke_*_instruction methods.
SimulationRevoke(op, id) ==
    /\ Returns(op, [id |-> id], SimulationBaseReturn(op))
    /\ UNCHANGED << adapter, plan, status_updates, power_forecast >>

\* The simulations report statuses and instructions are revoked.
NextLifecycle ==
    \/ \E id \in InstructionIds, status_type \in StatusInputs : StatusUpdate(id, status_type)
    \/ \E op \in SimulationRevocations, id \in InstructionIds : SimulationRevoke(op, id)
    \/ \E op \in CecRevocations :
          \E args \in [RevokeParameters(op) -> SimulationIds \cup ArtifactIds] :
              CecRevoke(op, args)

SpecLifecycle == InitEmpty /\ [][NextLifecycle]_vars

\* The calls on the default contracts of the CEC and of a simulation.
NextContract ==
    \/ \E simulation_id \in SimulationIds, update \in SimulationUpdates :
          ProcessSimulationUpdate(simulation_id, update)
    \/ \E simulation_id \in SimulationIds, power_measurement \in MeasurementInputs :
          ProcessPowerMeasurement(simulation_id, power_measurement)
    \/ \E simulation_id \in SimulationIds, forecast \in ForecastInputs :
          ProcessPowerForecast(simulation_id, forecast)
    \/ \E op \in CecRevocations :
          \E args \in [RevokeParameters(op) -> SimulationIds \cup ArtifactIds] :
              CecRevoke(op, args)
    \/ \E control_type \in ControlType : ActivateControlType(control_type)
    \/ \E type \in InstructionTypes, id \in InstructionIds :
          ProcessInstruction([type |-> type, id |-> id])
    \/ \E op \in SimulationRevocations, id \in InstructionIds : SimulationRevoke(op, id)

SpecContract == InitEmpty /\ [][NextContract]_vars

\* ----------------------------------------------------------- data models

MaxValues == 2

\* The ids of operation modes and of timers the descriptions are built from.
ModeIds == {1, 2}

TimerIds == {1}

\* class Transition: from_ and to are ids, start_timers and blocking_timers
\* lists of ids.
Transition ==
    [id : {1}, from_ : ModeIds, to : ModeIds,
     start_timers : ListsUpTo(TimerIds, 1), blocking_timers : ListsUpTo(TimerIds, 1)]

\* The three descriptions that hold operation modes, transitions and timers.
DescriptionTypes ==
    {"OMBCSystemDescription", "FRBCActuatorDescription", "DDBCActuatorDescription"}

\* The lists of operation modes and of timers, each given by its id.
OperationModeLists == {<< >>, << 1 >>, << 2 >>, << 1, 2 >>}

TimerLists == ListsUpTo(TimerIds, 1)

\* OMBCSystemDescription(...), FRBCActuatorDescription(...) and
\* DDBCActuatorDescription(...): each field is validated against its type,
\* the lists are stored as given.
Description(type, operation_modes, transitions, timers) ==
    Some([type |-> type, operation_modes |-> operation_modes,
          transitions |-> transitions, timers |-> timers])

\* class PowerValue, with two of the members of CommodityQuantity.
PowerValue == [commodity_quantity : {"ELECTRIC.POWER.L1", "ELECTRIC.POWER.L2"}, value : {1}]

\* PowerMeasurement(measurement_timestamp=..., values=...): the list of
\* values is stored as given.
PowerMeasurement(measurement_timestamp, values) ==
    Some([measurement_timestamp |-> measurement_timestamp, values |-> values])

\* The optional fields of a DeviceControlInstruction: power, fill_level, enable.
ControlFields ==
    [power : Optional({1000}), fill_level : Optional({1}), enable : Optional(BOOLEAN)]

\* self.<name> of a model: the value of the field, AttributeError when the
\* model has no such field.
GetAttr(self, name) ==
    IF name \in DOMAIN self THEN << "value", self[name] >> ELSE Raise("AttributeError")

\* return self.<name> is not None
IsNotNone(attr) ==
    IF attr[1] = "raise" THEN attr ELSE Some(attr[2] # None)

\* DeviceControlInstruction.is_power_control: return self.power_value is not None
is_power_control(self) == IsNotNone(GetAttr(self, "power_value"))

\* DeviceControlInstruction.is_fill_level_control:
\* return self.fill_level_target is not None
is_fill_level_control(self) == IsNotNone(GetAttr(self, "fill_level_target"))

\* DeviceControlInstruction.is_enable_disable: return self.enable is not None
is_enable_disable(self) == IsNotNone(GetAttr(self, "enable"))

ConstructDescription(type, operation_modes, transitions, timers) ==
    /\ Returns(type,
               [operation_modes |-> operation_modes, transitions |-> transitions,
                timers |-> timers],
               Description(type, operation_modes, transitions, timers))
    /\ UNCHANGED << adapter, plan, status_updates, power_forecast >>

ConstructPowerMeasurement(values) ==
    /\ Returns("PowerMeasurement", [values |-> values], PowerMeasurement(clock, values))
    /\ UNCHANGED << adapter, plan, status_updates, power_forecast >>

IsPowerControl(self) ==
    /\ Returns("is_power_control", self, is_power_control(self))
    /\ UNCHANGED << adapter, plan, status_updates, power_forecast >>

IsFillLevelControl(self) ==
    /\ Returns("is_fill_level_control", self, is_fill_level_control(self))
    /\ UNCHANGED << adapter, plan, status_updates, power_forecast >>

IsEnableDisable(self) ==
    /\ Returns("is_enable_disable", self, is_enable_disable(self))
    /\ UNCHANGED << adapter, plan, status_updates, power_forecast >>

\* The data models are constructed and the instruction asked what it controls.
NextModels ==
    \/ \E type \in DescriptionTypes, operation_modes \in OperationModeLists,
          transitions \in ListsUpTo(Transition, 1), timers \in TimerLists :
          ConstructDescription(type, operation_modes, transitions, timers)
    \/ \E values \in ListsUpTo(PowerValue, MaxValues) : ConstructPowerMeasurement(values)
    \/ \E self \in ControlFields : IsPowerControl(self)
    \/ \E self \in ControlFields : IsFillLevelControl(self)
    \/ \E self \in ControlFields : IsEnableDisable(self)

SpecModels == InitEmpty /\ [][NextModels]_vars

\* ------------------------------------- HomeAssistantEntityIdMapping

\* The values of a mapping: Optional[str].
Values == Optional(EntityIds)

\* dict[str, Optional[str]]: the dicts the callers pass.
Dicts == UNION {[D -> Values] : D \in SUBSET Keys}

\* dict.update(other) and d[key] = value
DictUpdate(d, other) ==
    [k \in DOMAIN d \cup DOMAIN other |-> IF k \in DOMAIN other THEN other[k] ELSE d[k]]

\* d.get(key)
DictGet(d, key) == IF key \in DOMAIN d THEN d[key] ELSE None

\* The dict without the keys of a set: del d[key] for each of them.
DictWithout(d, keys) == [k \in DOMAIN d \ keys |-> d[k]]

\* for key in keys: if key not in d: d[key] = None
DictFill(d, keys) == [k \in DOMAIN d \cup keys |-> DictGet(d, k)]

\* The data returned as it is when its keys are allowed.
validate_and_normalize_NoFill(data, allowed_keys) ==
    IF allowed_keys = None THEN Some(data)
    ELSE IF DOMAIN data \ allowed_keys[1] # {} THEN Raise("ValidationError")
    ELSE Some(data)

\* validate_and_normalize with allowed_keys the value of _allowed_keys_context:
\* the ValueError of the validator reaches the caller as a ValidationError.
validate_and_normalize(data, allowed_keys) ==
    IF allowed_keys = None THEN Some(data)
    ELSE IF DOMAIN data \ allowed_keys[1] # {} THEN Raise("ValidationError")
    ELSE Some([key \in allowed_keys[1] |-> DictGet(data, key)])

\* The property allowed_keys: getattr(self, "_allowed_keys", set()); the
\* field allowed of an instance is None while the attribute is not set.
allowed_keys(self) == IF self.allowed = None THEN {} ELSE self.allowed[1]

\* A call on the mapping bound to a name returns and leaves the instance new.
Bound(m) == mappings[m] # None

Leaves(m, instance) == mappings' = [mappings EXCEPT ![m] = Some(instance)]

\* The context left set when the validation fails.
Construct_NoReset(m, root, allowed) ==
    LET entered   == IF allowed # None THEN allowed ELSE context
        validated == validate_and_normalize(root, entered)
        stored    == IF allowed # None THEN allowed[1] ELSE {}
    IN  /\ IF Len(validated) = 1
           THEN /\ Leaves(m, [root |-> validated[1], allowed |-> Some(stored)])
                /\ Returns("HomeAssistantEntityIdMapping",
                           [self |-> m, root |-> root, allowed_keys |-> allowed],
                           None)
                /\ context' = context
           ELSE /\ Returns("HomeAssistantEntityIdMapping",
                           [self |-> m, root |-> root, allowed_keys |-> allowed],
                           validated)
                /\ context' = entered
                /\ UNCHANGED mappings
        /\ UNCHANGED << plan, status_updates, power_forecast >>

\* m = HomeAssistantEntityIdMapping(root, allowed_keys=allowed): the context
\* is set to allowed when that is not None, the root is validated, the
\* allowed keys are stored (allowed_keys or set(); a new instance has none
\* from before), and the context is reset whether the validation failed or
\* not.  A failed construction binds nothing.
Construct(m, root, allowed) ==
    LET entered   == IF allowed # None THEN allowed ELSE context
        validated == validate_and_normalize(root, entered)
        stored    == IF allowed # None THEN allowed[1] ELSE {}
    IN  /\ IF Len(validated) = 1
           THEN /\ Leaves(m, [root |-> validated[1], allowed |-> Some(stored)])
                /\ Returns("HomeAssistantEntityIdMapping",
                           [self |-> m, root |-> root, allowed_keys |-> allowed],
                           None)
           ELSE /\ Returns("HomeAssistantEntityIdMapping",
                           [self |-> m, root |-> root, allowed_keys |-> allowed],
                           validated)
                /\ UNCHANGED mappings
        /\ context' = context
        /\ UNCHANGED << plan, status_updates, power_forecast >>

\* m = HomeAssistantEntityIdMapping.model_validate(data): the validator runs
\* under the context as it is and __init__ does not, _allowed_keys is not set.
ModelValidate(m, data) ==
    LET validated == validate_and_normalize(data, context)
    IN  /\ IF Len(validated) = 1
           THEN Leaves(m, [root |-> validated[1], allowed |-> None])
           ELSE UNCHANGED mappings
        /\ Returns("model_validate", [self |-> m, data |-> data],
                   IF Len(validated) = 1 THEN None ELSE validated)
        /\ UNCHANGED << plan, status_updates, power_forecast, context >>

\* The keys outside the new set kept.
SetAllowedKeys_KeepsKeys(m, keys, validate, auto_fill) ==
    /\ Bound(m)
    /\ LET self   == mappings[m][1]
           filled == IF auto_fill THEN DictFill(self.root, keys) ELSE self.root
       IN  Leaves(m, [root |-> filled, allowed |-> Some(keys)])
    /\ Returns("set_allowed_keys",
               [self |-> m, keys |-> keys, validate |-> validate, auto_fill |-> auto_fill],
               None)
    /\ UNCHANGED << plan, status_updates, power_forecast, context >>

\* The missing keys not filled in.
SetAllowedKeys_NoFill(m, keys, validate, auto_fill) ==
    /\ Bound(m)
    /\ LET self == mappings[m][1]
           kept == IF validate /\ keys # {}
                   THEN DictWithout(self.root, DOMAIN self.root \ keys)
                   ELSE self.root
       IN  Leaves(m, [root |-> kept, allowed |-> Some(keys)])
    /\ Returns("set_allowed_keys",
               [self |-> m, keys |-> keys, validate |-> validate, auto_fill |-> auto_fill],
               None)
    /\ UNCHANGED << plan, status_updates, power_forecast, context >>

\* set_allowed_keys(keys, validate, auto_fill)
SetAllowedKeys(m, keys, validate, auto_fill) ==
    /\ Bound(m)
    /\ LET self   == mappings[m][1]
           kept   == IF validate /\ keys # {}
                     THEN DictWithout(self.root, DOMAIN self.root \ keys)
                     ELSE self.root
           filled == IF auto_fill THEN DictFill(kept, keys) ELSE kept
       IN  Leaves(m, [root |-> filled, allowed |-> Some(keys)])
    /\ Returns("set_allowed_keys",
               [self |-> m, keys |-> keys, validate |-> validate, auto_fill |-> auto_fill],
               None)
    /\ UNCHANGED << plan, status_updates, power_forecast, context >>

\* add_allowed_keys(keys, auto_fill)
AddAllowedKeys(m, keys, auto_fill) ==
    /\ Bound(m)
    /\ LET self        == mappings[m][1]
           new_allowed == allowed_keys(self) \cup keys
           filled      == IF auto_fill THEN DictFill(self.root, keys) ELSE self.root
       IN  Leaves(m, [root |-> filled, allowed |-> Some(new_allowed)])
    /\ Returns("add_allowed_keys", [self |-> m, keys |-> keys, auto_fill |-> auto_fill], None)
    /\ UNCHANGED << plan, status_updates, power_forecast, context >>

\* __setitem__ as a function of the instance: the instance left, or the error.
setitem(self, key, value) ==
    IF allowed_keys(self) # {} /\ key \notin allowed_keys(self)
    THEN Raise("ValueError")
    ELSE Some([self EXCEPT !.root = DictUpdate(self.root, [k \in {key} |-> value])])

\* mapping[key] = value
SetItem(m, key, value) ==
    /\ Bound(m)
    /\ LET left == setitem(mappings[m][1], key, value)
       IN  /\ IF Len(left) = 1 THEN Leaves(m, left[1]) ELSE UNCHANGED mappings
           /\ Returns("__setitem__", [self |-> m, key |-> key, value |-> value],
                      IF Len(left) = 1 THEN None ELSE left)
    /\ UNCHANGED << plan, status_updates, power_forecast, context >>

\* validate_and_set(key, value): the key, then the type of the value, then
\* self[key] = value.
ValidateAndSet(m, key, value) ==
    /\ Bound(m)
    /\ LET self == mappings[m][1]
           left == IF allowed_keys(self) # {} /\ key \notin allowed_keys(self)
                   THEN Raise("ValueError")
                   ELSE IF value # None /\ value[1] \notin EntityIds
                   THEN Raise("ValueError")
                   ELSE setitem(self, key, value)
       IN  /\ IF Len(left) = 1 THEN Leaves(m, left[1]) ELSE UNCHANGED mappings
           /\ Returns("validate_and_set", [self |-> m, key |-> key, value |-> value],
                      IF Len(left) = 1 THEN None ELSE left)
    /\ UNCHANGED << plan, status_updates, power_forecast, context >>

\* The entries with allowed keys applied before the error is raised.
Update_Partial(m, other) ==
    /\ Bound(m)
    /\ LET self    == mappings[m][1]
           invalid == IF allowed_keys(self) # {} THEN DOMAIN other \ allowed_keys(self) ELSE {}
       IN  /\ Leaves(m, [self EXCEPT
                           !.root = DictUpdate(self.root, DictWithout(other, invalid))])
           /\ Returns("update", [self |-> m, other |-> other],
                      IF invalid = {} THEN None ELSE Raise("ValueError"))
    /\ UNCHANGED << plan, status_updates, power_forecast, context >>

\* update(other)
Update(m, other) ==
    /\ Bound(m)
    /\ LET self    == mappings[m][1]
           invalid == IF allowed_keys(self) # {} THEN DOMAIN other \ allowed_keys(self) ELSE {}
       IN  IF invalid # {}
           THEN /\ Returns("update", [self |-> m, other |-> other], Raise("ValueError"))
                /\ UNCHANGED mappings
           ELSE /\ Returns("update", [self |-> m, other |-> other], None)
                /\ Leaves(m, [self EXCEPT !.root = DictUpdate(self.root, other)])
    /\ UNCHANGED << plan, status_updates, power_forecast, context >>

\* mapping.root = value, through __setattr__
AssignRoot(m, value) ==
    /\ Bound(m)
    /\ LET self    == mappings[m][1]
           invalid == IF allowed_keys(self) # {} THEN DOMAIN value \ allowed_keys(self) ELSE {}
       IN  IF invalid # {}
           THEN /\ Returns("__setattr__", [self |-> m, root |-> value], Raise("ValueError"))
                /\ UNCHANGED mappings
           ELSE /\ Returns("__setattr__", [self |-> m, root |-> value], None)
                /\ Leaves(m, [self EXCEPT !.root = value])
    /\ UNCHANGED << plan, status_updates, power_forecast, context >>

\* The mapping of a configuration: every operation on one name.
NextMapping ==
    \/ \E root \in Dicts, allowed \in Optional(SUBSET Keys) : Construct("mapping1", root, allowed)
    \/ \E data \in Dicts : ModelValidate("mapping1", data)
    \/ \E keys \in SUBSET Keys, validate \in BOOLEAN, auto_fill \in BOOLEAN :
          SetAllowedKeys("mapping1", keys, validate, auto_fill)
    \/ \E keys \in SUBSET Keys, auto_fill \in BOOLEAN : AddAllowedKeys("mapping1", keys, auto_fill)
    \/ \E key \in Keys, value \in Values : SetItem("mapping1", key, value)
    \/ \E key \in Keys, value \in Values : ValidateAndSet("mapping1", key, value)
    \/ \E other \in Dicts : Update("mapping1", other)
    \/ \E value \in Dicts : AssignRoot("mapping1", value)

SpecMapping == InitEmpty /\ [][NextMapping]_vars

\* A mapping constructed with allowed keys, then restricted with validation.
NextRestricted ==
    \/ \E root \in Dicts, keys \in SUBSET Keys \ {{}} : Construct("mapping1", root, Some(keys))
    \/ \E keys \in SUBSET Keys \ {{}}, auto_fill \in BOOLEAN :
          SetAllowedKeys("mapping1", keys, TRUE, auto_fill)
    \/ \E keys \in SUBSET Keys, auto_fill \in BOOLEAN : AddAllowedKeys("mapping1", keys, auto_fill)
    \/ \E key \in Keys, value \in Values : SetItem("mapping1", key, value)
    \/ \E key \in Keys, value \in Values : ValidateAndSet("mapping1", key, value)
    \/ \E other \in Dicts : Update("mapping1", other)
    \/ \E value \in Dicts : AssignRoot("mapping1", value)

SpecRestricted == InitEmpty /\ [][NextRestricted]_vars

\* Several mappings constructed one after the other, with and without keys.
NextInstances ==
    \/ \E m \in Names, root \in Dicts, allowed \in Optional(SUBSET Keys) :
          Construct(m, root, allowed)
    \/ \E m \in Names, data \in Dicts : ModelValidate(m, data)
    \/ \E m \in Names, key \in Keys, value \in Values : SetItem(m, key, value)

SpecInstances == InitEmpty /\ [][NextInstances]_vars

\* ------------------------------------------------- vocabulary of the claims

IsSorted(s) ==
    \A j, k \in DOMAIN s : j < k => s[j].start_time <= s[k].start_time

\* The k-th smallest element of a set of indices.
Nth(idx, k) == CHOOSE m \in idx : Cardinality({n \in idx : n <= m}) = k

\* list is the selection of the elements of s at the indices idx, in the order of s.
IsSelection(list, s, idx) ==
    /\ Len(list) = Cardinality(idx)
    /\ \A k \in 1 .. Len(list) : list[k] = s[Nth(idx, k)]

Starts(s) == {s[k].start_time : k \in DOMAIN s}

Ends(s) == {s[k].start_time + s[k].duration : k \in DOMAIN s}

IsLeast(x, S) == x \in S /\ \A y \in S : x <= y

IsGreatest(x, S) == x \in S /\ \A y \in S : x >= y

\* valid_from and valid_until are the least start and the greatest end of s.
BoundsOf(s) ==
    /\ valid_from # None /\ IsLeast(valid_from[1], Starts(s))
    /\ valid_until # None /\ IsGreatest(valid_until[1], Ends(s))

Added == mutation.op = "add_instruction"

\* ------------------------------------------------------------------ claims

\* C1: once add_instruction has been called, after any further sequence of
\* calls, plan.instructions is sorted non-decreasing by start_time, whatever
\* the order of the list the plan was constructed with.
C1_SortedAfterAdd == Added => IsSorted(instructions)

\* The added instruction starts before one that was in the list, and the
\* list holds MaxLen instructions.
C1_Witness ==
    /\ Added
    /\ Len(instructions) = MaxLen
    /\ \E k \in DOMAIN mutation.before :
          mutation.arg[1].start_time < mutation.before[k].start_time

\* C2 (as stated): whenever the plan holds an instruction, directly after
\* construction included, valid_from is the least start_time and valid_until
\* the greatest start_time + duration.
C2_BoundsWheneverNonEmpty == instructions # << >> => BoundsOf(instructions)

\* C2 (amended): whenever the plan holds an instruction and its last
\* mutation was an add_instruction, valid_from is the least start_time and
\* valid_until the greatest start_time + duration of its instructions.
C2_BoundsAfterAdd == (instructions # << >> /\ Added) => BoundsOf(instructions)

\* The greatest end is not the end of the last instruction of the list, and
\* a query has been answered since the add.
C2_Witness ==
    /\ Added
    /\ Len(instructions) >= 2
    /\ \E k \in DOMAIN instructions :
          instructions[k].start_time + instructions[k].duration
            > instructions[Len(instructions)].start_time
              + instructions[Len(instructions)].duration
    /\ call.op = "get_next_instruction"

\* C3: once add_instruction(i) has returned, the list holds i and valid_from
\* and valid_until are the least start and the greatest end over the list
\* the call found together with i, never over the list without i.
C3_BoundsIncludeAdded ==
    Added =>
        /\ \E k \in DOMAIN instructions : instructions[k] = mutation.arg[1]
        /\ Len(instructions) = Len(mutation.before) + 1
        /\ BoundsOf(Append(mutation.before, mutation.arg[1]))

\* The added instruction starts before every instruction the plan held, so
\* that valid_from moves, and a reader has queried the plan since.
C3_Witness ==
    /\ Added
    /\ mutation.before # << >>
    /\ \A k \in DOMAIN mutation.before :
          mutation.arg[1].start_time < mutation.before[k].start_time
    /\ call.op = "get_active_instructions"

Cleared == mutation.op = "clear"

\* C4: after clear() and before any further add_instruction the list is
\* empty, get_active_instructions and get_next_instruction return None for
\* every time, and valid_from = valid_until.
C4_AfterClear ==
    Cleared =>
        /\ instructions = << >>
        /\ valid_from = valid_until
        /\ call.op \in {"get_active_instructions", "get_next_instruction"} => result = None
        /\ \A t \in QueryTimes :
              /\ GetActiveInstructions(instructions, t) = None
              /\ GetNextInstruction(instructions, t) = None

\* The plan was cleared, the clock went on, and a query was answered.
C4_Witness ==
    /\ Cleared
    /\ clock > mutation.at
    /\ call.op = "get_active_instructions"
    /\ result = None

\* C5: get_active_instructions(t) returns the instructions i with
\* i.start_time <= t < i.start_time + i.duration, all of them and no other,
\* in plan order, and None (never an empty list) when there is none.
C5_ActiveExactly ==
    call.op = "get_active_instructions" =>
        LET t   == call.arg[1]
            idx == {k \in DOMAIN instructions :
                      /\ instructions[k].start_time <= t
                      /\ t < instructions[k].start_time + instructions[k].duration}
        IN  IF idx = {} THEN result = None
            ELSE /\ result # None
                 /\ result[1] # << >>
                 /\ IsSelection(result[1], instructions, idx)

\* At the time asked for one instruction starts, one has just ended and one
\* is running.
C5_Witness ==
    /\ call.op = "get_active_instructions"
    /\ result # None
    /\ \E j, k, m \in DOMAIN instructions :
          /\ instructions[j].start_time = call.arg[1]
          /\ instructions[k].start_time + instructions[k].duration = call.arg[1]
          /\ instructions[m].start_time < call.arg[1]
          /\ call.arg[1] < instructions[m].start_time + instructions[m].duration

C7_ForDeviceExactly ==
    call.op = "get_instructions_for_device" =>
        /\ result # None
        /\ IsSelection(result[1], instructions,
                       {k \in DOMAIN instructions : instructions[k].target_device = call.arg[1]})

\* The plan holds instructions of both devices, two of them for the device
\* asked for, under a control_id that differs from the device id.
C7_Witness ==
    /\ call.op = "get_instructions_for_device"
    /\ Len(result[1]) = 2
    /\ Len(instructions) = 3
    /\ \E k \in DOMAIN instructions : instructions[k].control_id # instructions[k].target_device

\* The instructions A (start T, 2 h) and B (start T + 1 h, 2 h) with T = 0.
IsA(i) == i.start_time = 0 /\ i.duration = 4

IsB(i) == i.start_time = 2 /\ i.duration = 4

\* B was added to the empty plan and then A.
ScenarioBA ==
    /\ Added
    /\ Len(mutation.before) = 1
    /\ IsB(mutation.before[1])
    /\ IsA(mutation.arg[1])

\* C8: from the empty plan, add B and then A: instructions = [A, B],
\* valid_from = T, valid_until = T + 3 h, get_active_instructions(T + 30 min)
\* = [A] and get_next_instruction(T) = B.
C8_ScenarioBA ==
    ScenarioBA =>
        /\ instructions = << mutation.arg[1], mutation.before[1] >>
        /\ valid_from = Some(0)
        /\ valid_until = Some(6)
        /\ (call.op = "get_active_instructions" /\ call.arg = Some(1))
              => result = Some(<< mutation.arg[1] >>)
        /\ (call.op = "get_next_instruction" /\ call.arg = Some(0))
              => result = Some(mutation.before[1])

\* The scenario, with get_next_instruction(T) answered.
C8_Witness ==
    /\ ScenarioBA
    /\ call.op = "get_next_instruction"
    /\ call.arg = Some(0)

Count(x, s) == Cardinality({k \in DOMAIN s : s[k] = x})

\* C9: add_instruction(i) returns normally and the list then holds every
\* instruction as often as before, and i once more, also when the plan holds
\* an instruction with the control_id of i.
C9_AddKeepsAll ==
    Added =>
        /\ call.op = "add_instruction" => result = None
        /\ \A x \in Range(instructions) \cup Range(mutation.before) \cup {mutation.arg[1]} :
              Count(x, instructions)
                = Count(x, mutation.before) + (IF x = mutation.arg[1] THEN 1 ELSE 0)

\* The plan held an instruction equal to the added one and another one with
\* the same control_id.
C9_Witness ==
    /\ Added
    /\ \E j, k \in DOMAIN mutation.before :
          /\ mutation.before[j] = mutation.arg[1]
          /\ mutation.before[k] # mutation.arg[1]
          /\ mutation.before[k].control_id = mutation.arg[1].control_id

\* C10 (as stated): whenever the plan holds no instruction, valid_from =
\* valid_until and both are the time of the last mutation of the plan (its
\* construction, when nothing has changed it since).
C10_EmptyBoundsAreMutationTime ==
    instructions = << >> =>
        /\ valid_from = valid_until
        /\ valid_from = Some(mutation.at)

\* C10 (amended): whenever the plan holds no instruction and add_instruction
\* or clear has been called on it, its last mutation is a clear(), and
\* valid_from = valid_until = the time of that clear().
C10_ClearedBoundsAreClearTime ==
    (instructions = << >> /\ mutation.op # "__init__") =>
        /\ Cleared
        /\ valid_from = Some(mutation.at)
        /\ valid_until = Some(mutation.at)

\* The plan was cleared after the clock had advanced.
C10_Witness ==
    /\ instructions = << >>
    /\ Cleared
    /\ mutation.at > generated_at
    /\ call.op = "clear"

\* ------------------------------------------------- claims C12 .. C20

\* The last update of the log, the one a status report has just added.
LastUpdate == status_updates[Len(status_updates)]

\* The update a status report asked for.
Reported ==
    [instruction_id |-> call.arg.instruction_id, status_type |-> call.arg.status_type,
     timestamp |-> clock]

\* The status changes the lifecycle description allows.
LifecycleTransitions ==
    {<< "NEW", "ACCEPTED" >>, << "NEW", "REJECTED" >>,
     << "ACCEPTED", "STARTED" >>, << "ACCEPTED", "REVOKED" >>,
     << "STARTED", "SUCCEEDED" >>, << "STARTED", "ABORTED" >>, << "STARTED", "REVOKED" >>}

\* Update k is the next one after update j for the same instruction.
NextForSame(j, k) ==
    /\ j < k
    /\ status_updates[j].instruction_id = status_updates[k].instruction_id
    /\ \A m \in DOMAIN status_updates :
          j < m /\ m < k => status_updates[m].instruction_id # status_updates[j].instruction_id

\* C12 as stated: once a terminal update exists for an instruction id, no
\* later update exists for the same id.
C12_NothingAfterTerminal ==
    \A j, k \in DOMAIN status_updates :
        (j < k /\ status_updates[j].instruction_id = status_updates[k].instruction_id)
            => status_updates[j].status_type \notin TerminalStatus

\* C12 amended: a status report with one of the seven statuses is accepted
\* whatever exists for the id, a terminal update included: the update is
\* constructed, returned and added after the ones that exist.
C12_UpdateAlwaysAccepted ==
    [][(call'.op = "InstructionStatusUpdate" /\ call'.arg.status_type \in InstructionStatus)
         => LET update == [instruction_id |-> call'.arg.instruction_id,
                           status_type |-> call'.arg.status_type,
                           timestamp |-> clock]
            IN  /\ result' = Some(update)
                /\ status_updates' = Append(status_updates, update)]_vars

C12_Witness ==
    /\ call.op = "InstructionStatusUpdate"
    /\ Len(status_updates) >= 2
    /\ result = Some(LastUpdate)
    /\ LastUpdate.instruction_id = call.arg.instruction_id
    /\ \E j \in 1 .. Len(status_updates) - 1 :
          /\ status_updates[j].instruction_id = LastUpdate.instruction_id
          /\ status_updates[j].status_type \in TerminalStatus

\* C13 as stated: the status of an instruction changes only along the
\* transitions of the lifecycle.
C13_OnlyLifecycleTransitions ==
    \A j, k \in DOMAIN status_updates :
        NextForSame(j, k)
            => << status_updates[j].status_type, status_updates[k].status_type >>
                   \in LifecycleTransitions

\* C13 amended: every status that exists is one of the seven of the
\* enumeration and a report with another value fails validation; a report
\* with one of the seven is the latest update whatever came before it.
C13_OnlyEnumerationChecked ==
    /\ \A k \in DOMAIN status_updates : status_updates[k].status_type \in InstructionStatus
    /\ call.op = "InstructionStatusUpdate"
          => IF call.arg.status_type \in InstructionStatus
             THEN /\ status_updates # << >>
                  /\ LastUpdate = Reported
                  /\ result = Some(Reported)
             ELSE result = Raise("ValidationError")

C13_Witness ==
    /\ call.op = "InstructionStatusUpdate"
    /\ Len(status_updates) >= 2
    /\ result = Some(LastUpdate)
    /\ NextForSame(Len(status_updates) - 1, Len(status_updates))
    /\ << status_updates[Len(status_updates) - 1].status_type, LastUpdate.status_type >>
           \notin LifecycleTransitions

\* The answer of the default contracts.
AbstractMethod == Some([status |-> "REJECTED", diagnostic_label |-> Some("abstract method")])

\* The methods of SimulationBase.
SimulationOperations ==
    {"activate_control_type", "process_instruction"} \cup SimulationRevocations

\* C15: every operation of OptimizationBase returns ReceptionStatus(REJECTED,
\* "abstract method"), raises nothing and changes no state of the CEC.
C15_CecRejectsAll ==
    [][call'.op \in CecOperations
         => /\ result' = AbstractMethod
            /\ UNCHANGED << power_forecast, status_updates, plan >>]_vars

C15_Witness ==
    /\ call.op = "process_power_forecast"
    /\ call.arg.power_forecast # << >>
    /\ power_forecast = << >>
    /\ result = AbstractMethod

\* C16: process_instruction of SimulationBase returns InstructionStatus.REJECTED
\* for every type of instruction, activate_control_type and every
\* revoke_*_instruction return ReceptionStatus(REJECTED, "abstract method");
\* none raises and none changes state.
C16_SimulationRejectsAll ==
    [][call'.op \in SimulationOperations
         => /\ result' = IF call'.op = "process_instruction"
                         THEN Some("REJECTED")
                         ELSE AbstractMethod
            /\ UNCHANGED << power_forecast, status_updates, plan >>]_vars

C16_Witness ==
    /\ call.op = "process_instruction"
    /\ call.arg.instruction.type = "OMBCInstruction"
    /\ result = Some("REJECTED")

\* The instruction has a terminal status among the updates that exist.
IsTerminal(id) ==
    \E k \in DOMAIN status_updates :
        /\ status_updates[k].instruction_id = id
        /\ status_updates[k].status_type \in TerminalStatus

\* C17 as stated: revoking an instruction that is in a terminal state
\* reports success.
C17_RevokeOfTerminalSucceeds ==
    (call.op \in SimulationRevocations /\ IsTerminal(call.arg.id))
        => /\ Len(result) = 1
           /\ result[1].status = "SUCCEEDED"

\* C17 amended: every revocation changes no state and is answered with
\* ReceptionStatus(REJECTED, "abstract method"), for an instruction in a
\* terminal state too; the second of two equal revocations is answered as
\* the first.
C17_RevokeChangesNothing ==
    [][call'.op \in SimulationRevocations \cup CecRevocations
         => /\ UNCHANGED << power_forecast, status_updates, plan >>
            /\ result' = AbstractMethod
            /\ repeated' => result' = result]_vars

C17_Witness ==
    /\ call.op \in SimulationRevocations
    /\ repeated
    /\ IsTerminal(call.arg.id)
    /\ result = AbstractMethod

\* The revocations the interface description names as keyed by the
\* simulation alone.
SingleArtifactRevocations ==
    {"revoke_frbc_leakage_behaviour", "revoke_frbc_usage_forecast",
     "revoke_frbc_fill_level_target_profile"}

\* C18 as stated: a revocation of the CEC takes simulation_id alone exactly
\* when it is one of the three FRBC single-artifact revocations, every other
\* one takes (simulation_id, id).
C18_OnlyThreeBySimulationAlone ==
    call.op \in CecRevocations
        => DOMAIN call.arg = IF call.op \in SingleArtifactRevocations
                             THEN {"simulation_id"}
                             ELSE {"simulation_id", "id"}

\* C18 amended: six revocations take simulation_id alone (power forecast,
\* FRBC leakage behaviour, usage forecast and fill level target profile,
\* DDBC system description and average demand rate forecast), the other
\* five take (simulation_id, id).
C18_SixBySimulationAlone ==
    call.op \in CecRevocations
        => DOMAIN call.arg =
              IF call.op \in SingleArtifactRevocations
                              \cup {"revoke_power_forecast",
                                    "revoke_ddbc_system_description",
                                    "revoke_ddbc_average_demand_rate_forecast"}
              THEN {"simulation_id"}
              ELSE {"simulation_id", "id"}

C18_Witness ==
    /\ call.op = "revoke_ddbc_system_description"
    /\ DOMAIN call.arg = {"simulation_id"}
    /\ result = AbstractMethod
    /\ repeated

\* A reference of one of the transitions to an operation mode or a timer
\* that the description does not hold.
Dangling(description) ==
    \E k \in DOMAIN description.transitions :
        LET t == description.transitions[k]
        IN  \/ t.from_ \notin Range(description.operation_modes)
            \/ t.to \notin Range(description.operation_modes)
            \/ \E id \in Range(t.start_timers) \cup Range(t.blocking_timers) :
                   id \notin Range(description.timers)

\* C11: constructing a description with a transition whose from or to is no
\* operation mode of the description, or one of whose timers is no timer of
\* the description, fails validation.
C11_DanglingReferenceFails ==
    (call.op \in DescriptionTypes /\ Dangling(call.arg))
        => result = Raise("ValidationError")

\* C19: a PowerMeasurement that was constructed holds no two PowerValues of
\* the same commodity_quantity.
C19_NoDuplicateCommodity ==
    (call.op = "PowerMeasurement" /\ Len(result) = 1)
        => \A j, k \in DOMAIN result[1].values :
              result[1].values[j].commodity_quantity = result[1].values[k].commodity_quantity
                  => j = k

\* C20: is_power_control, is_fill_level_control and is_enable_disable each
\* return whether the field power, fill_level and enable of the instruction
\* is set, as a boolean, and raise nothing.
C20_ReturnsWhetherFieldSet ==
    /\ call.op = "is_power_control" => result = Some(call.arg.power # None)
    /\ call.op = "is_fill_level_control" => result = Some(call.arg.fill_level # None)
    /\ call.op = "is_enable_disable" => result = Some(call.arg.enable # None)

\* ------------------------------------------------- claims C21 .. C30

\* The instance bound to the name the last call was made on.
Self == mappings[call.arg.self][1]

\* C21: HomeAssistantEntityIdMapping(data, allowed_keys=K) fails with a
\* validation error and binds no mapping when data has a key outside K;
\* otherwise the keys of the new mapping are exactly K, each key of data
\* keeps its value, every other key of K maps to None and allowed_keys is K.
C21_ConstructWithAllowedKeys ==
    [][(call'.op = "HomeAssistantEntityIdMapping" /\ call'.arg.allowed_keys # None)
         => LET K    == call'.arg.allowed_keys[1]
                data == call'.arg.root
                m    == call'.arg.self
            IN  IF DOMAIN data \ K # {}
                THEN /\ result' = Raise("ValidationError")
                     /\ mappings' = mappings
                ELSE /\ result' = None
                     /\ mappings'[m] # None
                     /\ DOMAIN mappings'[m][1].root = K
                     /\ \A k \in K :
                           mappings'[m][1].root[k] = IF k \in DOMAIN data THEN data[k] ELSE None
                     /\ allowed_keys(mappings'[m][1]) = K]_vars

C21_Witness ==
    /\ call.op = "HomeAssistantEntityIdMapping"
    /\ call.arg.allowed_keys = Some(Keys)
    /\ DOMAIN call.arg.root = {"key1"}
    /\ result = None
    /\ mappings["mapping1"] # None
    /\ Self.root["key1"] = Some("sensor.a")
    /\ Self.root["key2"] = None
    /\ allowed_keys(Self) = Keys

Written(c) ==
    CASE c.op \in {"__setitem__", "validate_and_set"} -> {c.arg.key}
      [] c.op = "update" -> DOMAIN c.arg.other
      [] c.op = "__setattr__" -> DOMAIN c.arg.root

\* C23: on a mapping with non-empty allowed_keys each of __setitem__,
\* validate_and_set, update and the assignment to root that involves a key
\* outside allowed_keys raises ValueError and leaves the mapping as it was.
C23_InvalidKeyChangesNothing ==
    [][(/\ call'.op \in {"__setitem__", "validate_and_set", "update", "__setattr__"}
        /\ allowed_keys(mappings[call'.arg.self][1]) # {}
        /\ Written(call') \ allowed_keys(mappings[call'.arg.self][1]) # {})
         => /\ result' = Raise("ValueError")
            /\ mappings' = mappings]_vars

C23_Witness ==
    /\ call.op = "update"
    /\ result = Raise("ValueError")
    /\ allowed_keys(Self) = {"key1"}
    /\ DOMAIN call.arg.other = Keys
    /\ call.arg.other["key1"] = Some("sensor.a")
    /\ Self.root["key1"] = None

\* The instructions of a list that start at s, in the order of the list.
StartingAt(list, s) == SelectSeq(list, LAMBDA i : i.start_time = s)

\* C24: add_instruction sorts stably: the instructions with one start_time
\* stand in the order they stood in before the call, the added one last.
C24_TiesKeepInsertionOrder ==
    Added => \A s \in StartTimes :
                StartingAt(instructions, s)
                    = StartingAt(Append(mutation.before, mutation.arg[1]), s)

C24_Witness ==
    /\ Added
    /\ \E j, k \in DOMAIN instructions :
          /\ j < k
          /\ instructions[j].start_time = instructions[k].start_time
          /\ instructions[j] # instructions[k]
          /\ instructions[k] = mutation.arg[1]
          /\ instructions[j] \in Range(mutation.before)

\* C25: of several instructions with the least start_time after t,
\* get_next_instruction(t) returns the one that stands first in the plan,
\* which after an add_instruction is the first of them in the order they
\* were added, the instruction just added being the last.
C25_NextIsFirstAdded ==
    (call.op = "get_next_instruction" /\ result # None)
        => /\ \E k \in DOMAIN instructions :
                 /\ result[1] = instructions[k]
                 /\ instructions[k].start_time > call.arg[1]
                 /\ \A j \in DOMAIN instructions :
                       instructions[j].start_time > call.arg[1]
                          => \/ instructions[j].start_time > instructions[k].start_time
                             \/ /\ instructions[j].start_time = instructions[k].start_time
                                /\ j >= k
           /\ Added => result[1] = Head(StartingAt(Append(mutation.before, mutation.arg[1]),
                                                   result[1].start_time))

C25_Witness ==
    /\ call.op = "get_next_instruction"
    /\ Added
    /\ result # None
    /\ mutation.arg[1].start_time = result[1].start_time
    /\ mutation.arg[1] # result[1]

\* C27: when the last mutation was an add_instruction and
\* get_active_instructions(t) returns an instruction, valid_from <= t < valid_until.
C27_ActiveInsideWindow ==
    (Added /\ call.op = "get_active_instructions" /\ result # None)
        => /\ valid_from # None
           /\ valid_until # None
           /\ valid_from[1] <= call.arg[1]
           /\ call.arg[1] < valid_until[1]

C27_Witness ==
    /\ Added
    /\ call.op = "get_active_instructions"
    /\ result # None
    /\ Len(result[1]) < Len(instructions)
    /\ valid_from[1] < call.arg[1]
    /\ call.arg[1] + 1 < valid_until[1]

\* C28: after add_instruction and clear calls on a plan created empty, with
\* no instruction of negative duration in the plan, valid_from <= valid_until.
C28_WindowNotReversed ==
    (/\ mutation.op \in {"add_instruction", "clear"}
     /\ \A k \in DOMAIN instructions : instructions[k].duration >= 0)
        => /\ valid_from # None
           /\ valid_until # None
           /\ valid_from[1] <= valid_until[1]

C28_Witness ==
    /\ Added
    /\ Len(instructions) >= 2
    /\ \A k \in DOMAIN instructions : instructions[k].duration >= 0
    /\ \E k \in DOMAIN instructions : instructions[k].duration = 0
    /\ valid_from[1] < valid_until[1]

\* The queries of the plan.
Queries == {"get_active_instructions", "get_next_instruction", "get_instructions_for_device"}

\* C29: a query leaves instructions, valid_from, valid_until, plan_id,
\* generated_at and comment as they were, and the same query with the same
\* argument again returns the same.
C29_QueriesChangeNothing ==
    [][call'.op \in Queries
         => /\ UNCHANGED << instructions, valid_from, valid_until, fields, mutation >>
            /\ (call.op = call'.op /\ call.arg = call'.arg) => result' = result]_vars

C29_Witness ==
    /\ call.op = "get_next_instruction"
    /\ result # None
    /\ Added
    /\ Len(instructions) >= 2
    /\ result[1] = instructions[2]

\* C26: the key restriction of one mapping does not reach another: a
\* construction, failed or not, leaves the context and every other mapping
\* as they were; a mapping constructed with allowed_keys K has allowed_keys K;
\* one constructed without, directly or by model_validate, holds the data it
\* was given whatever its keys and has empty allowed_keys, and takes any key.
C26_RestrictionStaysWithInstance ==
    [][call'.op \in {"HomeAssistantEntityIdMapping", "model_validate", "__setitem__"}
         => LET m == call'.arg.self
            IN  /\ context' = None
                /\ \A n \in Names \ {m} : mappings'[n] = mappings[n]
                /\ CASE call'.op = "HomeAssistantEntityIdMapping"
                          /\ call'.arg.allowed_keys # None
                        -> result' = None
                              => allowed_keys(mappings'[m][1]) = call'.arg.allowed_keys[1]
                     [] call'.op = "HomeAssistantEntityIdMapping"
                          /\ call'.arg.allowed_keys = None
                        -> /\ result' = None
                           /\ mappings'[m][1].root = call'.arg.root
                           /\ allowed_keys(mappings'[m][1]) = {}
                     [] call'.op = "model_validate"
                        -> /\ result' = None
                           /\ mappings'[m][1].root = call'.arg.data
                           /\ allowed_keys(mappings'[m][1]) = {}
                     [] call'.op = "__setitem__"
                        -> /\ allowed_keys(mappings'[m][1]) = allowed_keys(mappings[m][1])
                           /\ allowed_keys(mappings[m][1]) = {}
                                 => /\ result' = None
                                    /\ mappings'[m][1].root[call'.arg.key]
                                          = call'.arg.value]_vars

C26_Witness ==
    /\ call.op = "model_validate"
    /\ call.arg.self = "mapping2"
    /\ mappings["mapping1"] # None
    /\ allowed_keys(mappings["mapping1"][1]) = {"key1"}
    /\ DOMAIN mappings["mapping1"][1].root = {"key1"}
    /\ DOMAIN Self.root = {"key2"}
    /\ allowed_keys(Self) = {}
    /\ context = None

\* C30: a mapping constructed with non-empty allowed_keys and then changed
\* by __setitem__, validate_and_set, update, assignment to root,
\* add_allowed_keys and set_allowed_keys with validation and a non-empty key
\* set has no key outside its allowed_keys.
C30_KeysAreAllowed ==
    \A m \in Names :
        mappings[m] # None
            => /\ allowed_keys(mappings[m][1]) # {}
               /\ DOMAIN mappings[m][1].root \subseteq allowed_keys(mappings[m][1])

C30_Witness ==
    /\ call.op = "set_allowed_keys"
    /\ call.arg.keys = {"key2"}
    /\ ~call.arg.auto_fill
    /\ Self.root = [k \in {"key2"} |-> Some("sensor.a")]
    /\ allowed_keys(Self) = {"key2"}

====
